---- MODULE Spec2Model ----
(***************************************************************************)
(* A model of the QDK repository: the BB84 script (src/BB84.py) and the    *)
(* E91 script (src/E91.py).  Each script is a straight-line program: it    *)
(* draws random bits and bases/angles, runs one quantum circuit per index  *)
(* on a single-shot simulator, sifts, estimates the QBER on a random       *)
(* sample, decides, and hashes the sender's raw key.                        *)
(*                                                                         *)
(* Python lists are modelled as sequences; a Python index k is position    *)
(* k + 1 of the sequence (see At).  Python strings are sequences of        *)
(* one-character strings.  A float is modelled as an IEEE-754 double: 53  *)
(* mantissa bits and an exponent, with literals, int / int and float * int *)
(* rounded to nearest, ties to even.                                       *)
(*                                                                         *)
(* The simulator is modelled by its exact statistics: a circuit is run on  *)
(* an (unnormalised, integer) state vector and a single shot may return    *)
(* any outcome whose amplitude is not zero.                                 *)
(***************************************************************************)
EXTENDS Integers, Sequences, FiniteSets, TLC

(* ------------------------------ bounds --------------------------------- *)

\* Largest N explored for a BB84 run (the script's N is 200).
MaxQubits == 2

\* Largest N explored for an E91 run (the script's N is 200).
MaxPairs == 1

\* Longest sifted sequence explored by the post-sifting specification.
MaxSift == 3

\* Longest raw-key bit string given to privacy_amplify_sha256.
MaxBits == 9

\* Longest sifted sequence the sample size is computed for on its own.
MaxPopulation == 50

(* --------------------------- Python helpers ---------------------------- *)

\* Python's None where an int is expected (lists initialised to [None] * N).
None == -1

\* lst[k] for a Python index k.
At(lst, k) == lst[k + 1]

\* range(n) as a set.
Range(n) == 0 .. (n - 1)

\* range(n) as the list [0, 1, ..., n-1].
RangeList(n) == [k \in 1 .. n |-> k - 1]

Max(a, b) == IF a >= b THEN a ELSE b

Pow(b, e) == b ^ e

\* The value of one decimal digit character.
DigitVal(ch) ==
    CASE ch = "0" -> 0 [] ch = "1" -> 1 [] ch = "2" -> 2 [] ch = "3" -> 3
      [] ch = "4" -> 4 [] ch = "5" -> 5 [] ch = "6" -> 6 [] ch = "7" -> 7
      [] ch = "8" -> 8 [] ch = "9" -> 9

DigitChar(d) == <<"0", "1", "2", "3", "4", "5", "6", "7", "8", "9">>[d + 1]

\* int(s, base) for a non-empty string of digits.
RECURSIVE ParseInt(_, _)
ParseInt(s, base) ==
    IF Len(s) = 0 THEN 0
    ELSE base * ParseInt(SubSeq(s, 1, Len(s) - 1), base) + DigitVal(s[Len(s)])

\* int(s): the decimal value of a string of digits.
PyInt(s) == ParseInt(s, 10)

\* str(n) for a non-negative int.
RECURSIVE PyStr(_)
PyStr(n) == IF n < 10 THEN <<DigitChar(n)>> ELSE PyStr(n \div 10) \o <<DigitChar(n % 10)>>

\* ''.join(parts) for a list of strings.
RECURSIVE Join(_)
Join(parts) == IF Len(parts) = 0 THEN <<>> ELSE Head(parts) \o Join(Tail(parts))

\* [x for x in lst if x in keep]: the list comprehensions' filter.
RECURSIVE FilterIn(_, _)
FilterIn(lst, keep) ==
    IF Len(lst) = 0 THEN <<>>
    ELSE (IF Head(lst) \in keep THEN <<Head(lst)>> ELSE <<>>) \o FilterIn(Tail(lst), keep)

\* sum(1 for x in lst if x in hit).
RECURSIVE CountIn(_, _)
CountIn(lst, hit) ==
    IF Len(lst) = 0 THEN 0
    ELSE (IF Head(lst) \in hit THEN 1 ELSE 0) + CountIn(Tail(lst), hit)

\* [lst[k] for k in idxs].
Pick(lst, idxs) == [j \in 1 .. Len(idxs) |-> At(lst, idxs[j])]

\* The elements of a list, as a set.
Elems(lst) == {lst[k] : k \in DOMAIN lst}

\* The lists random.sample(range(n), k) can return: k distinct elements of
\* range(n), in any order.
RandomSample(n, k) ==
    {s \in [1 .. k -> Range(n)] : \A a, b \in 1 .. k : a # b => s[a] # s[b]}

(* ------------------------------- floats -------------------------------- *)

\* Mantissa bits of a double.
Precision == 53

\* A positive double is [m |-> its 53 mantissa bits, the highest (a 1)
\* first, e |-> the exponent of the last bit]; its value is m * 2^e.
DZero == [m |-> <<>>, e |-> 0]

Front(seq) == SubSeq(seq, 1, Len(seq) - 1)

Last(seq) == seq[Len(seq)]

\* The one element of a singleton set: The({F(v) : v \in {e}}) is F(e) with
\* e evaluated once.
The(S) == CHOOSE r \in S : TRUE

\* The value of the first k bits of a list, highest first.
RECURSIVE BitsValueTo(_, _)
BitsValueTo(bits, k) == IF k = 0 THEN 0 ELSE 2 * BitsValueTo(bits, k - 1) + bits[k]

\* The value of a list of bits, highest first.
BitsToInt(bits) == BitsValueTo(bits, Len(bits))

\* The bits of a non-negative int, highest first (none for 0).
RECURSIVE IntToBits(_)
IntToBits(n) == IF n = 0 THEN <<>> ELSE IntToBits(n \div 2) \o <<n % 2>>

\* bits + 1: the last 0 becomes 1 and the 1s after it become 0.
IncBits(bits) ==
    IF \A k \in 1 .. Len(bits) : bits[k] = 1
    THEN <<1>> \o [k \in 1 .. Len(bits) |-> 0]
    ELSE The({[k \in 1 .. Len(bits) |-> IF k < p THEN bits[k] ELSE IF k = p THEN 1 ELSE 0] :
                 p \in {k \in 1 .. Len(bits) :
                           bits[k] = 0 /\ \A j \in (k + 1) .. Len(bits) : bits[j] = 1}})

\* Round a bit list (highest first, leading 1, last bit of exponent e, with
\* `sticky` saying that non-zero bits follow it) to a double: to nearest,
\* ties to even.
RoundBits(bits, sticky, e) ==
    IF Len(bits) <= Precision
    THEN [m |-> bits \o [k \in 1 .. (Precision - Len(bits)) |-> 0],
          e |-> e - (Precision - Len(bits))]
    ELSE LET kept    == SubSeq(bits, 1, Precision)
             dropped == SubSeq(bits, Precision + 1, Len(bits))
             rest    == sticky \/ \E k \in 2 .. Len(dropped) : dropped[k] = 1
             up      == dropped[1] = 1 /\ (rest \/ Last(kept) = 1)
             shift   == Len(bits) - Precision
         IN  IF ~up THEN [m |-> kept, e |-> e + shift]
             ELSE The({IF Len(inc) = Precision THEN [m |-> inc, e |-> e + shift]
                       ELSE [m |-> Front(inc), e |-> e + shift + 1] :
                          inc \in {IncBits(kept)}})

\* <<n', d', k>> with n/d = (n'/d') * 2^k and 1 <= n'/d' < 2.
RECURSIVE Scale(_, _, _)
Scale(n, d, k) ==
    IF n < d THEN Scale(2 * n, d, k - 1)
    ELSE IF n >= 2 * d THEN Scale(n, 2 * d, k + 1)
    ELSE <<n, d, k>>

\* The lowest k bits of v, highest first.
FixedBits(v, k) == [j \in 1 .. k |-> (v \div Pow(2, k - j)) % 2]

\* The next `count` bits of the binary expansion of r/d (r < d), and the
\* remainder left, by long division, thirteen bits at a time.
RECURSIVE GenBits(_, _, _)
GenBits(r, d, count) ==
    IF count = 0 THEN <<<<>>, r>>
    ELSE LET k == IF count < 13 THEN count ELSE 13
         IN  The({The({<<FixedBits(x \div d, k) \o rest[1], rest[2]>> :
                          rest \in {GenBits(x % d, d, count - k)}}) :
                     x \in {r * Pow(2, k)}})

\* The double nearest to n/d: a decimal literal such as 0.25 = 25/100, or
\* the quotient int / int.
DoubleOf(frac) ==
    IF frac[1] = 0 THEN DZero
    ELSE The({The({RoundBits(<<1>> \o g[1], g[2] # 0, s[3] - Precision) :
                       g \in {GenBits(s[1] - s[2], s[2], Precision)}}) :
                 s \in {Scale(frac[1], frac[2], 0)}})

\* bits * n + carry, for a small int n, ten bits at a time.
RECURSIVE MulBits(_, _, _)
MulBits(bits, n, carry) ==
    IF Len(bits) = 0 THEN IntToBits(carry)
    ELSE LET k == IF Len(bits) < 10 THEN Len(bits) ELSE 10
         IN  The({MulBits(high, n, d \div Pow(2, k)) \o FixedBits(d % Pow(2, k), k) :
                     high \in {SubSeq(bits, 1, Len(bits) - k)},
                     d \in {BitsToInt(SubSeq(bits, Len(bits) - k + 1, Len(bits))) * n
                                + carry}})

\* float * int.
DMulInt(x, n) ==
    IF Len(x.m) = 0 \/ n = 0 THEN DZero
    ELSE The({RoundBits(product, FALSE, x.e) : product \in {MulBits(x.m, n, 0)}})

\* int(x) for a double x >= 0: the bits left of the binary point.
IntOfDouble(x) ==
    IF Len(x.m) = 0 THEN 0
    ELSE IF x.e >= 0 THEN BitsToInt(x.m) * Pow(2, x.e)
    ELSE IF Precision + x.e <= 0 THEN 0
    ELSE BitsToInt(SubSeq(x.m, 1, Precision + x.e))

\* x > y for doubles x, y >= 0.
DGreater(x, y) ==
    IF Len(x.m) = 0 THEN FALSE
    ELSE IF Len(y.m) = 0 THEN TRUE
    ELSE \/ x.e > y.e
         \/ /\ x.e = y.e
            /\ \E k \in 1 .. Precision :
                   /\ x.m[k] > y.m[k]
                   /\ \A j \in 1 .. (k - 1) : x.m[j] = y.m[j]

(* ------------------------ the circuit simulator ------------------------ *)

\* QuantumCircuit(nq, nc): an empty circuit on |0...0>.
QuantumCircuit(nq, nc) == [num_qubits |-> nq, num_clbits |-> nc, ops |-> <<>>]

AddOp(qc, op) == [qc EXCEPT !.ops = Append(@, op)]

\* Gates.  ry carries the rotation in quarter turns: RY(qc, a, q) is
\* qc.ry(-2 * angle, q) for angle = a * pi/4.
XGate(qc, q)       == AddOp(qc, [gate |-> "x", q |-> q, a |-> 0, c |-> 0])
HGate(qc, q)       == AddOp(qc, [gate |-> "h", q |-> q, a |-> 0, c |-> 0])
CXGate(qc, ctl, q) == AddOp(qc, [gate |-> "cx", q |-> q, a |-> 0, c |-> ctl])
RY(qc, a, q)       == AddOp(qc, [gate |-> "ry", q |-> q, a |-> a, c |-> 0])
Measure(qc, q, cb) == AddOp(qc, [gate |-> "measure", q |-> q, a |-> 0, c |-> cb])

\* Bit q of a basis-state index (qubit 0 is the least significant bit).
BitOf(idx, q) == (idx \div Pow(2, q)) % 2

\* The 2x2 matrices, up to a positive factor, as <<m00, m01, m10, m11>>.
\* ry(theta) = [[cos(theta/2), -sin(theta/2)], [sin(theta/2), cos(theta/2)]]
\* at theta = -a*pi/2.
Matrix(op) ==
    CASE op.gate = "x" -> <<0, 1, 1, 0>>
      [] op.gate = "h" -> <<1, 1, 1, -1>>
      [] op.gate = "ry" /\ op.a % 4 = 0 -> <<1, 0, 0, 1>>
      [] op.gate = "ry" /\ op.a % 4 = 1 -> <<1, 1, -1, 1>>
      [] op.gate = "ry" /\ op.a % 4 = 2 -> <<0, 1, -1, 0>>
      [] op.gate = "ry" /\ op.a % 4 = 3 -> <<-1, 1, -1, -1>>

\* One gate applied to a state vector psi : 0 .. 2^n - 1 -> Int.
ApplyOp(psi, op) ==
    IF op.gate = "measure" THEN psi
    ELSE IF op.gate = "cx" THEN
        [idx \in DOMAIN psi |->
            IF BitOf(idx, op.c) = 1
            THEN psi[idx + (1 - 2 * BitOf(idx, op.q)) * Pow(2, op.q)]
            ELSE psi[idx]]
    ELSE
        LET m == Matrix(op) IN
        [idx \in DOMAIN psi |->
            LET b  == BitOf(idx, op.q)
                i0 == idx - b * Pow(2, op.q)
                i1 == i0 + Pow(2, op.q)
            IN  m[2 * b + 1] * psi[i0] + m[2 * b + 2] * psi[i1]]

RECURSIVE ApplyOps(_, _)
ApplyOps(psi, ops) ==
    IF Len(ops) = 0 THEN psi ELSE ApplyOps(ApplyOp(psi, Head(ops)), Tail(ops))

\* The state vector a circuit leaves, starting from |0...0>.
Statevector(qc) ==
    ApplyOps([idx \in 0 .. (Pow(2, qc.num_qubits) - 1) |-> IF idx = 0 THEN 1 ELSE 0],
             qc.ops)

\* The value classical bit cb holds when the qubits are found in basis
\* state idx: the measured qubit's bit, or 0 when no measure writes cb.
ClbitValue(qc, idx, cb) ==
    LET ms == {k \in DOMAIN qc.ops : qc.ops[k].gate = "measure" /\ qc.ops[k].c = cb}
    IN  IF ms = {} THEN 0
        ELSE BitOf(idx, qc.ops[CHOOSE k \in ms : \A j \in ms : j <= k].q)

\* The key of get_counts() for basis state idx: one character per classical
\* bit, the highest classical bit first.
CountsKey(qc, idx) ==
    [j \in 1 .. qc.num_clbits |-> DigitChar(ClbitValue(qc, idx, qc.num_clbits - j))]

\* simulator.run(qc, shots=1).result().get_counts(): the single key a shot
\* can produce is that of any basis state with a non-zero amplitude.
GetCountsKeys(qc) ==
    LET psi == Statevector(qc)
    IN  {CountsKey(qc, idx) : idx \in {x \in DOMAIN psi : psi[x] # 0}}

(* ------------------------- BB84.py: functions -------------------------- *)

\* A raised exception, as the value a call "returns".
Raise(kind) == [raise |-> kind]

Raised(v) == "raise" \in DOMAIN v

\* prepare_state(bit, basis): the circuit preparing bit in basis 'Z' or 'X',
\* or the ValueError it raises for any other label.
prepare_state(bit, basis) ==
    IF basis = "Z" THEN
        (IF bit = 1 THEN XGate(QuantumCircuit(1, 1), 0) ELSE QuantumCircuit(1, 1))
    ELSE IF basis = "X" THEN
        (IF bit = 0 THEN HGate(QuantumCircuit(1, 1), 0)
         ELSE HGate(XGate(QuantumCircuit(1, 1), 0), 0))
    ELSE Raise("ValueError")

\* A plausible slip in measure_in_basis: the basis change is left out and
\* every measurement is made in the Z basis.
measure_in_basis_always_z(qc_prep, basis) ==
    {PyInt(bitstr) : bitstr \in GetCountsKeys(Measure(qc_prep, 0, 0))}

\* measure_in_basis(qc_prep, basis): the ints one shot can return.  Only the
\* label 'X' adds the basis change; every other label measures as 'Z'.
measure_in_basis(qc_prep, basis) ==
    LET qc == IF basis = "X" THEN HGate(qc_prep, 0) ELSE qc_prep
    IN  {PyInt(bitstr) : bitstr \in GetCountsKeys(Measure(qc, 0, 0))}

\* int.to_bytes(length, 'big'): the big-endian bytes of n, or OverflowError
\* when n does not fit.
RECURSIVE BigEndian(_, _)
BigEndian(n, length) ==
    IF length = 0 THEN <<>> ELSE BigEndian(n \div 256, length - 1) \o <<n % 256>>

to_bytes(n, length) ==
    IF n >= Pow(256, length) THEN Raise("OverflowError") ELSE BigEndian(n, length)

\* hashlib.sha256(b).hexdigest(), uninterpreted: the digest is identified
\* with the byte string hashed.
Sha256Hex(b) == <<"sha256", b>>

\* A plausible slip in the encoding: the byte count is rounded down, so the
\* bits beyond the last whole byte are cut off (masked) before hashing.
EncodeBitstring_floor(bitstring) ==
    LET length == Len(bitstring) \div 8
    IN  BigEndian(ParseInt(bitstring, 2) % Pow(256, length), length)

\* The bytes privacy_amplify_sha256 hashes for a non-empty bit string:
\* int(bitstring, 2).to_bytes((len(bitstring) + 7) // 8, 'big').
EncodeBitstring(bitstring) ==
    to_bytes(ParseInt(bitstring, 2), (Len(bitstring) + 7) \div 8)

\* privacy_amplify_sha256(bitstring): '' for the empty string, else the
\* SHA-256 hex digest of the encoded bytes.
privacy_amplify_sha256(bitstring) ==
    IF Len(bitstring) = 0 THEN <<>> ELSE Sha256Hex(EncodeBitstring(bitstring))

(* -------------------------- E91.py: functions -------------------------- *)

\* prepare_bell_pair(): H on qubit 0, CX from 0 to 1.
prepare_bell_pair == CXGate(HGate(QuantumCircuit(2, 2), 0), 0, 1)

\* A plausible slip in measure_bell_pair: the receiver's rotation is left
\* out, so qubit 1 is always measured at angle 0.
measure_bell_pair_no_rotation_B(qc, angle_A, angle_B) ==
    LET qc_r == Measure(Measure(RY(qc, angle_A, 0), 0, 0), 1, 1)
    IN  {<<PyInt(<<At(bits, 1)>>), PyInt(<<At(bits, 0)>>)>> : bits \in GetCountsKeys(qc_r)}

\* measure_bell_pair(qc, angle_A, angle_B): the pairs (bit_A, bit_B) one
\* shot can return.  Angles are in quarter turns of pi.
measure_bell_pair(qc, angle_A, angle_B) ==
    LET qc_r == Measure(Measure(RY(RY(qc, angle_A, 0), angle_B, 1), 0, 0), 1, 1)
    IN  {<<PyInt(<<At(bits, 1)>>), PyInt(<<At(bits, 0)>>)>> : bits \in GetCountsKeys(qc_r)}

\* The angle choices, in units of pi/4: [0, pi/4, pi/2] for the sender,
\* [pi/4, pi/2, 3*pi/4] for the receiver and for Eve.
AnglesA == {0, 1, 2}

AnglesB == {1, 2, 3}

AnglesEve == {1, 2, 3}

\* Eve's circuit: a copy of qc with ry(-2*eve_angle) and a measurement of
\* qubit 1 into classical bit 1.
EveCircuit(qc, eve_angle) == Measure(RY(qc, eve_angle, 1), 1, 1)

\* The circuit Eve hands on: a fresh QuantumCircuit(2,2), with x on qubit 1
\* when eve_meas == 1.
EveResend(eve_meas) ==
    IF eve_meas = 1 THEN XGate(QuantumCircuit(2, 2), 1) ELSE QuantumCircuit(2, 2)


(* ------------------------------- state --------------------------------- *)

VARIABLES
    \* the constants at the top of each script (lines 8-11), and which script runs
    protocol, N, SAMPLE_FRACTION, QBER_THRESHOLD, EVE_ENABLED,
    \* position in the script, the loop index, the exception that ended the run
    pc, i, error,
    \* BB84.py's lists
    A_bits, A_bases, B_bases, B_results, eve_bases,
    \* both scripts' list of Eve's measured values
    eve_results,
    \* E91.py's lists, and two locals of its loop kept per index: the counts
    \* key of Eve's shot and the circuit handed to measure_bell_pair
    angles_A, angles_B, results_A, results_B, eve_angles, eve_counts, qc_sent,
    \* sifting
    sift_positions, sifted_A, sifted_B,
    \* parameter estimation
    sift_len, sample_size, sample_indices, mismatches, QBER,
    remaining_indices, raw_A_key, raw_B_key,
    \* decision: the branch taken, the raw-key comparison printed, the final key
    decision, keys_match, final_key_hex,
    \* summary
    total_mismatches_full, full_qber,
    \* a call of privacy_amplify_sha256 on its own
    pa_pc, pa_bitstring, pa_out,
    \* calls of prepare_state / measure_in_basis on their own
    fn_pc, fn_bit, fn_basis_A, fn_basis_E, fn_basis_B, fn_qc, fn_eve_meas,
    fn_B_meas, fn_error,
    \* the sample-size expression max(1, int(SAMPLE_FRACTION * sift_len)) on
    \* its own
    ss_pc, ss_fraction, ss_len, ss_size

cfgVars  == <<protocol, N, SAMPLE_FRACTION, QBER_THRESHOLD, EVE_ENABLED>>
bb84Vars == <<A_bits, A_bases, B_bases, B_results, eve_bases>>
e91Vars  == <<angles_A, angles_B, results_A, results_B, eve_angles, eve_counts, qc_sent>>
siftVars == <<sift_positions, sifted_A, sifted_B>>
estVars  == <<sift_len, sample_size, sample_indices, mismatches, QBER,
              remaining_indices, raw_A_key, raw_B_key>>
decVars  == <<decision, keys_match, final_key_hex>>
sumVars  == <<total_mismatches_full, full_qber>>
paVars   == <<pa_pc, pa_bitstring, pa_out>>
fnVars   == <<fn_pc, fn_bit, fn_basis_A, fn_basis_E, fn_basis_B, fn_qc, fn_eve_meas,
              fn_B_meas, fn_error>>
runVars  == <<cfgVars, pc, i, error, bb84Vars, eve_results, e91Vars, siftVars,
              estVars, decVars, sumVars>>
ssVars   == <<ss_pc, ss_fraction, ss_len, ss_size>>
vars     == <<runVars, paVars, fnVars, ssVars>>

\* A name not bound yet: an int, a list of ints, a string, a fraction.
UnboundList == <<None>>

UnboundStr == <<"unbound">>

UnboundFrac == <<None, None>>

\* The state of the names a script has not assigned yet.
NothingSifted ==
    /\ sift_positions = UnboundList /\ sifted_A = UnboundList /\ sifted_B = UnboundList

NothingEstimated ==
    /\ sift_len = None /\ sample_size = None /\ sample_indices = UnboundList
    /\ mismatches = None /\ QBER = UnboundFrac /\ remaining_indices = UnboundList
    /\ raw_A_key = UnboundStr /\ raw_B_key = UnboundStr

NothingDecided ==
    /\ decision = "none" /\ keys_match = "none" /\ final_key_hex = UnboundStr

NothingSummarised ==
    /\ total_mismatches_full = None /\ full_qber = UnboundFrac

NoLists ==
    /\ A_bits = <<>> /\ A_bases = <<>> /\ B_bases = <<>> /\ B_results = <<>>
    /\ eve_bases = <<>> /\ eve_results = <<>>
    /\ angles_A = <<>> /\ angles_B = <<>> /\ results_A = <<>> /\ results_B = <<>>
    /\ eve_angles = <<>> /\ eve_counts = <<>> /\ qc_sent = <<>>

\* No script is running.
RunIdle ==
    /\ protocol = "none" /\ N = 0 /\ SAMPLE_FRACTION = <<1, 4>>
    /\ QBER_THRESHOLD = <<11, 100>> /\ EVE_ENABLED = FALSE
    /\ pc = "idle" /\ i = 0 /\ error = "none"
    /\ NoLists /\ NothingSifted /\ NothingEstimated /\ NothingDecided
    /\ NothingSummarised

PaIdle == pa_pc = "idle" /\ pa_bitstring = <<>> /\ pa_out = UnboundStr

FnIdle ==
    /\ fn_pc = "idle" /\ fn_bit = 0 /\ fn_basis_A = "Z" /\ fn_basis_E = "Z"
    /\ fn_basis_B = "Z" /\ fn_qc = QuantumCircuit(1, 1) /\ fn_eve_meas = None
    /\ fn_B_meas = None /\ fn_error = "none"

SsIdle == ss_pc = "idle" /\ ss_fraction = <<1, 4>> /\ ss_len = 1 /\ ss_size = None

(* ------------------------- a run of a script --------------------------- *)

\* The state as a script starts: its constants are set (SAMPLE_FRACTION =
\* 0.25 and QBER_THRESHOLD = 0.11 as in the source; N and EVE_ENABLED are
\* the toggles a user edits), nothing else is bound.
Init ==
    /\ protocol \in {"BB84", "E91"}
    /\ N \in 0 .. (IF protocol = "BB84" THEN MaxQubits ELSE MaxPairs)
    /\ SAMPLE_FRACTION = <<1, 4>>
    /\ QBER_THRESHOLD = <<11, 100>>
    /\ EVE_ENABLED \in BOOLEAN
    /\ pc = "start" /\ i = 0 /\ error = "none"
    /\ NoLists /\ NothingSifted /\ NothingEstimated /\ NothingDecided
    /\ NothingSummarised
    /\ PaIdle /\ FnIdle /\ SsIdle

\* BB84.py lines 58-73: A's bits and bases, B's bases, the result lists.
BB84_Draw ==
    /\ pc = "start" /\ protocol = "BB84"
    /\ A_bases' \in [1 .. N -> {"Z", "X"}]
    /\ A_bits' \in [1 .. N -> {0, 1}]
    /\ B_bases' \in [1 .. N -> {"Z", "X"}]
    /\ B_results' = [k \in 1 .. N |-> None]
    /\ eve_bases' = [k \in 1 .. N |-> "None"]
    /\ eve_results' = [k \in 1 .. N |-> None]
    /\ i' = 0
    /\ pc' = IF N = 0 THEN "sift" ELSE "transmit"
    /\ UNCHANGED <<cfgVars, error, e91Vars, siftVars, estVars, decVars, sumVars,
                   paVars, fnVars, ssVars>>

\* BB84.py lines 77-96: one pass of the transmission loop.
BB84_Transmit ==
    /\ pc = "transmit" /\ protocol = "BB84" /\ i < N
    /\ LET qc_A == prepare_state(At(A_bits, i), At(A_bases, i)) IN
       IF EVE_ENABLED THEN
           \E eve_basis \in {"Z", "X"} :
           \E eve_meas \in measure_in_basis(qc_A, eve_basis) :
           \E B_meas \in measure_in_basis(prepare_state(eve_meas, eve_basis),
                                          At(B_bases, i)) :
               /\ eve_bases' = [eve_bases EXCEPT ![i + 1] = eve_basis]
               /\ eve_results' = [eve_results EXCEPT ![i + 1] = eve_meas]
               /\ B_results' = [B_results EXCEPT ![i + 1] = B_meas]
       ELSE
           \E B_meas \in measure_in_basis(qc_A, At(B_bases, i)) :
               /\ B_results' = [B_results EXCEPT ![i + 1] = B_meas]
               /\ UNCHANGED <<eve_bases, eve_results>>
    /\ i' = i + 1
    /\ pc' = IF i + 1 = N THEN "sift" ELSE "transmit"
    /\ UNCHANGED <<cfgVars, error, A_bits, A_bases, B_bases, e91Vars, siftVars,
                   estVars, decVars, sumVars, paVars, fnVars, ssVars>>

\* E91.py lines 47-53: the angle lists and the empty result lists.
E91_Draw ==
    /\ pc = "start" /\ protocol = "E91"
    /\ angles_A' \in [1 .. N -> AnglesA]
    /\ angles_B' \in [1 .. N -> AnglesB]
    /\ results_A' = <<>> /\ results_B' = <<>>
    /\ eve_results' = <<>> /\ eve_angles' = <<>>
    /\ i' = 0
    /\ pc' = IF N = 0 THEN "sift" ELSE "transmit"
    /\ UNCHANGED <<cfgVars, error, bb84Vars, eve_counts, qc_sent, siftVars, estVars,
                   decVars, sumVars, paVars, fnVars, ssVars>>

\* E91.py lines 56-78: one pass of the transmission loop.
E91_Transmit ==
    /\ pc = "transmit" /\ protocol = "E91" /\ i < N
    /\ IF EVE_ENABLED THEN
           \E eve_angle \in AnglesEve :
           \E key \in GetCountsKeys(EveCircuit(prepare_bell_pair, eve_angle)) :
               LET eve_meas == PyInt(key)
                   qc == EveResend(eve_meas)
               IN  \E ab \in measure_bell_pair(qc, At(angles_A, i), At(angles_B, i)) :
                       /\ eve_angles' = Append(eve_angles, eve_angle)
                       /\ eve_counts' = Append(eve_counts, key)
                       /\ eve_results' = Append(eve_results, eve_meas)
                       /\ qc_sent' = Append(qc_sent, qc)
                       /\ results_A' = Append(results_A, ab[1])
                       /\ results_B' = Append(results_B, ab[2])
       ELSE
           \E ab \in measure_bell_pair(prepare_bell_pair, At(angles_A, i), At(angles_B, i)) :
               /\ qc_sent' = Append(qc_sent, prepare_bell_pair)
               /\ results_A' = Append(results_A, ab[1])
               /\ results_B' = Append(results_B, ab[2])
               /\ UNCHANGED <<eve_angles, eve_counts, eve_results>>
    /\ i' = i + 1
    /\ pc' = IF i + 1 = N THEN "sift" ELSE "transmit"
    /\ UNCHANGED <<cfgVars, error, bb84Vars, angles_A, angles_B, siftVars, estVars,
                   decVars, sumVars, paVars, fnVars, ssVars>>

\* A plausible slip in sifting: the basis comparison is left out and every
\* position is kept.
SiftPositions_keep_all(a, b, n) == RangeList(n)

\* [i for i in range(N) if a[i] == b[i]] (BB84.py line 115, E91.py line 88).
SiftPositions(a, b, n) ==
    FilterIn(RangeList(n), {k \in Range(n) : At(a, k) = At(b, k)})

\* BB84.py lines 115-117: basis reconciliation.
BB84_Sift ==
    /\ pc = "sift" /\ protocol = "BB84"
    /\ LET sp == SiftPositions(A_bases, B_bases, N) IN
        /\ sift_positions' = sp
        /\ sifted_A' = Pick(A_bits, sp)
        /\ sifted_B' = Pick(B_results, sp)
    /\ pc' = "estimate"
    /\ UNCHANGED <<cfgVars, i, error, bb84Vars, eve_results, e91Vars, estVars,
                   decVars, sumVars, paVars, fnVars, ssVars>>

\* E91.py lines 88-90: keep the pairs measured at equal angles.
E91_Sift ==
    /\ pc = "sift" /\ protocol = "E91"
    /\ LET sp == SiftPositions(angles_A, angles_B, N) IN
        /\ sift_positions' = sp
        /\ sifted_A' = Pick(results_A, sp)
        /\ sifted_B' = Pick(results_B, sp)
    /\ pc' = "estimate"
    /\ UNCHANGED <<cfgVars, i, error, bb84Vars, eve_results, e91Vars, estVars,
                   decVars, sumVars, paVars, fnVars, ssVars>>


(* --------------- parameter estimation, decision, summary ---------------- *)

\* max(1, int(SAMPLE_FRACTION * sift_len)), for the literal SAMPLE_FRACTION
\* = frac[1] / frac[2].
SampleSize(frac, len) ==
    The({Max(1, IntOfDouble(product)) :
            product \in {DMulInt(fraction, len) : fraction \in {DoubleOf(frac)}}})

\* A plausible slip in the decision: >= instead of >.
Exceeds_or_equals(q, threshold) ==
    The({~DGreater(y, x) : x \in {DoubleOf(q)}, y \in {DoubleOf(threshold)}})

\* QBER > QBER_THRESHOLD: q = <<mismatches, sample_size>> stands for the
\* float mismatches / sample_size, threshold for a literal.
Exceeds(q, threshold) ==
    The({DGreater(x, y) : x \in {DoubleOf(q)}, y \in {DoubleOf(threshold)}})

\* The positions (Python indices) at which two lists differ, as zip sees them.
Differing(a, b) ==
    {k \in Range(IF Len(a) <= Len(b) THEN Len(a) ELSE Len(b)) : At(a, k) # At(b, k)}

\* ''.join(str(bits[i]) for i in idxs).
KeyString(bits, idxs) == Join([j \in 1 .. Len(idxs) |-> PyStr(At(bits, idxs[j]))])

\* BB84.py lines 127-147, E91.py lines 97-112: the empty-sifted check, the
\* sample, the QBER, and the raw keys without the sampled positions.
ParameterEstimation ==
    /\ pc = "estimate"
    /\ sift_len' = Len(sifted_A)
    /\ IF Len(sifted_A) = 0 THEN
           /\ error' = "RuntimeError"
           /\ pc' = "error"
           /\ UNCHANGED <<sample_size, sample_indices, mismatches, QBER,
                          remaining_indices, raw_A_key, raw_B_key>>
       ELSE LET len == Len(sifted_A) IN
            \E size \in {SampleSize(SAMPLE_FRACTION, len)} :
                IF size > len THEN
                    \* random.sample: "Sample larger than population"
                    /\ sample_size' = size
                    /\ error' = "ValueError"
                    /\ pc' = "error"
                    /\ UNCHANGED <<sample_indices, mismatches, QBER,
                                   remaining_indices, raw_A_key, raw_B_key>>
                ELSE
                    \E sample \in RandomSample(len, size) :
                        LET miss == CountIn(sample, Differing(sifted_A, sifted_B))
                            rest == FilterIn(RangeList(len), Range(len) \ Elems(sample))
                        IN  /\ sample_size' = size
                            /\ sample_indices' = sample
                            /\ mismatches' = miss
                            /\ QBER' = <<miss, size>>
                            /\ remaining_indices' = rest
                            /\ raw_A_key' = KeyString(sifted_A, rest)
                            /\ raw_B_key' = KeyString(sifted_B, rest)
                            /\ pc' = "decide"
                            /\ UNCHANGED error
    /\ UNCHANGED <<cfgVars, i, bb84Vars, eve_results, e91Vars, siftVars, decVars,
                   sumVars, paVars, fnVars, ssVars>>

\* BB84.py lines 153-168, E91.py lines 116-121: abort, or proceed and hash
\* the sender's raw key.  Only BB84.py compares the two raw keys.
Decide ==
    /\ pc = "decide"
    /\ IF Exceeds(QBER, QBER_THRESHOLD) THEN
           /\ decision' = "abort"
           /\ UNCHANGED <<keys_match, final_key_hex>>
       ELSE
           /\ decision' = "proceed"
           /\ keys_match' = IF protocol = "BB84"
                            THEN (IF raw_A_key = raw_B_key THEN "match" ELSE "differ")
                            ELSE keys_match
           /\ final_key_hex' = privacy_amplify_sha256(raw_A_key)
    /\ pc' = "summary"
    /\ UNCHANGED <<cfgVars, i, error, bb84Vars, eve_results, e91Vars, siftVars,
                   estVars, sumVars, paVars, fnVars, ssVars>>

\* BB84.py lines 173-178, E91.py lines 124-129: the full-sifted statistics.
Summary ==
    /\ pc = "summary"
    /\ total_mismatches_full' = Cardinality(Differing(sifted_A, sifted_B))
    /\ full_qber' = <<Cardinality(Differing(sifted_A, sifted_B)), sift_len>>
    /\ pc' = "done"
    /\ UNCHANGED <<cfgVars, i, error, bb84Vars, eve_results, e91Vars, siftVars,
                   estVars, decVars, paVars, fnVars, ssVars>>

Next ==
    \/ BB84_Draw \/ BB84_Transmit \/ BB84_Sift
    \/ E91_Draw \/ E91_Transmit \/ E91_Sift
    \/ ParameterEstimation \/ Decide \/ Summary

\* A run of either script.
Spec == Init /\ [][Next]_vars


(* ------------------- the script from sifting onwards -------------------- *)

\* All lists of length n over a set.
ListsOf(S, n) == [1 .. n -> S]

Const(n, v) == [k \in 1 .. n |-> v]

\* States a run is in right after sifting, for longer sifted sequences and
\* for other settings of SAMPLE_FRACTION (0.25, 0.5, 0.75, 1.0) and
\* QBER_THRESHOLD (0.11, 0.5) than the run above explores.  They are states
\* of runs with Eve enabled in which every index was sifted: in BB84 every
\* basis of A and B is 'Z' and Eve's is 'X', so both of her and B's results
\* are free; in E91 every angle is pi/4, so the results measured on Eve's
\* re-prepared |00> are free.  Any two bit lists of equal length are
\* therefore sifted_A and sifted_B of some run.
InitEst ==
    /\ protocol \in {"BB84", "E91"}
    /\ N \in 0 .. MaxSift
    /\ SAMPLE_FRACTION \in {<<1, 4>>, <<1, 2>>, <<3, 4>>, <<1, 1>>}
    /\ QBER_THRESHOLD \in {<<11, 100>>, <<1, 2>>}
    /\ EVE_ENABLED = TRUE
    /\ pc = "estimate" /\ i = N /\ error = "none"
    /\ sifted_A \in ListsOf({0, 1}, N)
    /\ sifted_B \in ListsOf({0, 1}, N)
    /\ sift_positions = RangeList(N)
    /\ eve_results = Const(N, 0)
    /\ IF protocol = "BB84" THEN
           /\ A_bits = sifted_A /\ B_results = sifted_B
           /\ A_bases = Const(N, "Z") /\ B_bases = Const(N, "Z")
           /\ eve_bases = Const(N, "X")
           /\ angles_A = <<>> /\ angles_B = <<>> /\ results_A = <<>>
           /\ results_B = <<>> /\ eve_angles = <<>> /\ eve_counts = <<>>
           /\ qc_sent = <<>>
       ELSE
           /\ results_A = sifted_A /\ results_B = sifted_B
           /\ angles_A = Const(N, 1) /\ angles_B = Const(N, 1)
           /\ eve_angles = Const(N, 1) /\ eve_counts = Const(N, <<"0", "0">>)
           /\ qc_sent = Const(N, EveResend(0))
           /\ A_bits = <<>> /\ A_bases = <<>> /\ B_bases = <<>>
           /\ B_results = <<>> /\ eve_bases = <<>>
    /\ NothingEstimated /\ NothingDecided /\ NothingSummarised
    /\ PaIdle /\ FnIdle /\ SsIdle

NextEst == ParameterEstimation \/ Decide \/ Summary

\* A script from the end of sifting to its last statement.
SpecEst == InitEst /\ [][NextEst]_vars

\* The same, with the scheduling a sequential script has: it runs on to its
\* last statement or to an exception.
FairSpecEst == SpecEst /\ WF_vars(NextEst)

(* ------------------ privacy_amplify_sha256 on its own ------------------- *)

\* All bit strings of length 0 .. n.
BitStrings(n) == UNION {ListsOf({"0", "1"}, m) : m \in 0 .. n}

InitPA ==
    /\ pa_pc = "call"
    /\ pa_bitstring \in BitStrings(MaxBits)
    /\ pa_out = UnboundStr
    /\ RunIdle /\ FnIdle /\ SsIdle

\* BB84.py lines 49-54, E91.py lines 39-44.
PA_Call ==
    /\ pa_pc = "call"
    /\ pa_out' = privacy_amplify_sha256(pa_bitstring)
    /\ pa_pc' = "returned"
    /\ UNCHANGED <<pa_bitstring, runVars, fnVars, ssVars>>

NextPA == PA_Call

\* Calls of privacy_amplify_sha256 on every bit string up to MaxBits long.
SpecPA == InitPA /\ [][NextPA]_vars

(* ------------------- the sample size on its own ------------------------ *)

\* A sample fraction written with two decimals (0.01 .. 1.00) and a sifted
\* length of 1 .. MaxPopulation.
InitSS ==
    /\ ss_pc = "call"
    /\ ss_fraction \in {<<k, 100>> : k \in 1 .. 100}
    /\ ss_len \in 1 .. MaxPopulation
    /\ ss_size = None
    /\ RunIdle /\ PaIdle /\ FnIdle

\* BB84.py line 131, E91.py line 101.
SS_Call ==
    /\ ss_pc = "call"
    /\ ss_size' = SampleSize(ss_fraction, ss_len)
    /\ ss_pc' = "returned"
    /\ UNCHANGED <<ss_fraction, ss_len, runVars, paVars, fnVars>>

NextSS == SS_Call

\* The sample size computed for every two-decimal fraction and every sifted
\* length up to MaxPopulation.
SpecSS == InitSS /\ [][NextSS]_vars

(* ------------ prepare_state and measure_in_basis on their own ----------- *)

\* Basis labels a caller may pass: the two the functions name, and others.
Labels == {"Z", "X", "Y", "z"}

\* The calls one pass of BB84.py's loop makes with Eve enabled (lines 79,
\* 85, 89, 91), with the three basis labels supplied by the caller.
InitFn ==
    /\ fn_pc = "prepare"
    /\ fn_bit \in {0, 1}
    /\ fn_basis_A \in Labels /\ fn_basis_E \in Labels /\ fn_basis_B \in Labels
    /\ fn_qc = QuantumCircuit(1, 1)
    /\ fn_eve_meas = None /\ fn_B_meas = None /\ fn_error = "none"
    /\ RunIdle /\ PaIdle /\ SsIdle

\* qc_A = prepare_state(bit, basis)
Fn_Prepare ==
    /\ fn_pc = "prepare"
    /\ LET r == prepare_state(fn_bit, fn_basis_A) IN
       IF Raised(r)
       THEN fn_error' = r.raise /\ fn_pc' = "error" /\ UNCHANGED fn_qc
       ELSE fn_qc' = r /\ fn_pc' = "eve_measure" /\ UNCHANGED fn_error
    /\ UNCHANGED <<fn_bit, fn_basis_A, fn_basis_E, fn_basis_B, fn_eve_meas,
                   fn_B_meas, runVars, paVars, ssVars>>

\* eve_meas = measure_in_basis(qc_A, eve_basis)
Fn_EveMeasure ==
    /\ fn_pc = "eve_measure"
    /\ \E r \in measure_in_basis(fn_qc, fn_basis_E) : fn_eve_meas' = r
    /\ fn_pc' = "resend"
    /\ UNCHANGED <<fn_bit, fn_basis_A, fn_basis_E, fn_basis_B, fn_qc, fn_B_meas,
                   fn_error, runVars, paVars, ssVars>>

\* qc_after_eve = prepare_state(eve_meas, eve_basis)
Fn_Resend ==
    /\ fn_pc = "resend"
    /\ LET r == prepare_state(fn_eve_meas, fn_basis_E) IN
       IF Raised(r)
       THEN fn_error' = r.raise /\ fn_pc' = "error" /\ UNCHANGED fn_qc
       ELSE fn_qc' = r /\ fn_pc' = "bob_measure" /\ UNCHANGED fn_error
    /\ UNCHANGED <<fn_bit, fn_basis_A, fn_basis_E, fn_basis_B, fn_eve_meas,
                   fn_B_meas, runVars, paVars, ssVars>>

\* B_meas = measure_in_basis(qc_after_eve, B_basis)
Fn_BobMeasure ==
    /\ fn_pc = "bob_measure"
    /\ \E r \in measure_in_basis(fn_qc, fn_basis_B) : fn_B_meas' = r
    /\ fn_pc' = "done"
    /\ UNCHANGED <<fn_bit, fn_basis_A, fn_basis_E, fn_basis_B, fn_qc, fn_eve_meas,
                   fn_error, runVars, paVars, ssVars>>

NextFn == Fn_Prepare \/ Fn_EveMeasure \/ Fn_Resend \/ Fn_BobMeasure

\* prepare_state and measure_in_basis called with any labels.
SpecFn == InitFn /\ [][NextFn]_vars


(* ------------------------------ properties ------------------------------ *)

Bits == {0, 1}

ValidLabels == {"Z", "X"}

\* No index has the same basis (BB84) or angle (E91) at sender and receiver.
NoMatch ==
    IF protocol = "BB84"
    THEN \A k \in Range(N) : At(A_bases, k) # At(B_bases, k)
    ELSE \A k \in Range(N) : At(angles_A, k) # At(angles_B, k)

\* The definite value qubit q of a circuit's state holds, or None when the
\* state has no definite value there.
PreparedValue(qc, q) ==
    LET psi == Statevector(qc)
        support == {x \in DOMAIN psi : psi[x] # 0}
    IN  IF \A x \in support : BitOf(x, q) = 1 THEN 1
        ELSE IF \A x \in support : BitOf(x, q) = 0 THEN 0
        ELSE None

\* C1: with Eve disabled every sifted pair agrees -- in BB84 B_results[k] =
\* A_bits[k] wherever A_bases[k] = B_bases[k], in E91 results_A[k] =
\* results_B[k] wherever angles_A[k] = angles_B[k] -- and so, once the
\* sample is drawn, no mismatch is counted, the sample QBER is 0, the
\* decision is proceed, and the full sifted QBER is 0.
C1_NoEveSiftedPairsAgree ==
    ~EVE_ENABLED /\ protocol \in {"BB84", "E91"} =>
        /\ protocol = "BB84" =>
              \A k \in Range(i) :
                  At(A_bases, k) = At(B_bases, k) => At(B_results, k) = At(A_bits, k)
        /\ protocol = "E91" =>
              \A k \in Range(Len(results_A)) :
                  At(angles_A, k) = At(angles_B, k) => At(results_A, k) = At(results_B, k)
        /\ pc \in {"decide", "summary", "done"} =>
              /\ Len(sifted_A) >= 1
              /\ \A k \in Range(Len(sifted_A)) : At(sifted_A, k) = At(sifted_B, k)
              /\ mismatches = 0 /\ QBER = <<0, sample_size>> /\ sample_size >= 1
        /\ decision # "abort"
        /\ pc \in {"summary", "done"} => decision = "proceed"
        /\ pc = "done" => total_mismatches_full = 0 /\ full_qber = <<0, sift_len>>

\* C1's case: an E91 run without Eve that sifted at least one pair and ended.
C1_Witness ==
    /\ protocol = "E91" /\ ~EVE_ENABLED /\ pc = "done"
    /\ sift_len >= 1 /\ decision = "proceed"

\* C2: the decision is proceed exactly when mismatches / sample_size is at
\* most the threshold; a final key exists only after proceed and is the
\* hash of the sender's raw key; after abort there is never a final key,
\* and the run still goes on to finish the summary statistics.
C2_DecisionSafety ==
    /\ decision # "none" =>
          /\ sample_size >= 1
          /\ mismatches = Cardinality({j \in 1 .. Len(sample_indices) :
                              At(sifted_A, sample_indices[j]) # At(sifted_B, sample_indices[j])})
          /\ QBER = <<mismatches, sample_size>>
          /\ decision = "proceed" <=>
                 mismatches * QBER_THRESHOLD[2] <= QBER_THRESHOLD[1] * sample_size
    /\ final_key_hex # UnboundStr => decision = "proceed"
    /\ decision = "proceed" => final_key_hex = privacy_amplify_sha256(raw_A_key)
    /\ decision = "abort" => final_key_hex = UnboundStr
    /\ pc = "done" => total_mismatches_full # None /\ full_qber[2] = sift_len

C2_DecisionAndCompletion ==
    /\ []C2_DecisionSafety
    /\ (decision = "abort") ~>
           (pc = "done" /\ total_mismatches_full # None /\ final_key_hex = UnboundStr)

\* C2's case: a run that aborted on a sample of at least two pairs, and
\* finished.
C2_Witness ==
    /\ pc = "done" /\ decision = "abort" /\ sample_size >= 2
    /\ final_key_hex = UnboundStr

\* size = max(1, floor(f * L)) for the fraction f = f[1] / f[2].
IsFloorSize(size, f, L) ==
    /\ size >= 1
    /\ f[1] * L >= f[2] => size * f[2] <= f[1] * L /\ f[1] * L < (size + 1) * f[2]
    /\ f[1] * L < f[2] => size = 1

\* What parameter estimation leaves behind in a run: the sample, the
\* remaining indices and the raw keys.
SampleAndRemainder ==
    pc \in {"decide", "summary", "done"} =>
        LET L == Len(sifted_A)
        IN  /\ L >= 1 /\ sift_len = L /\ Len(sifted_B) = L
            /\ IsFloorSize(sample_size, SAMPLE_FRACTION, L)
            /\ Len(sample_indices) = sample_size
            /\ Elems(sample_indices) \subseteq Range(L)
            /\ Cardinality(Elems(sample_indices)) = sample_size
            /\ Elems(remaining_indices) = Range(L) \ Elems(sample_indices)
            /\ \A a, b \in DOMAIN remaining_indices :
                   a < b => remaining_indices[a] < remaining_indices[b]
            /\ Len(remaining_indices) = L - sample_size
            /\ Len(raw_A_key) = L - sample_size
            /\ Len(raw_B_key) = L - sample_size
            /\ L = Len(sample_indices) + Len(raw_A_key)

\* C3: for a sifted length L >= 1 and every sample fraction in (0, 1],
\* sample_size = max(1, floor(fraction * L)), the sample is sample_size
\* distinct indices of [0, L), the remaining indices are the others in
\* increasing order, both raw keys are L - sample_size long, and
\* L = |sample| + |raw key|.
\* Stated of a run and of the sample size computed on its own.
C3_SampleAndRemainder ==
    /\ SampleAndRemainder
    /\ ss_pc = "returned" => IsFloorSize(ss_size, ss_fraction, ss_len)

\* C4: when no index has a matching basis/angle (N = 0 included) the sifted
\* sequence is empty and the run ends in the RuntimeError right after
\* sifting: no sample, QBER, decision, raw key, final key or summary is ever
\* computed, and nothing runs after the error.
C4_EmptySiftedIsFatal ==
    (pc \notin {"start", "transmit", "sift"} /\ protocol \in {"BB84", "E91"} /\ NoMatch) =>
        /\ sifted_A = <<>> /\ sifted_B = <<>>
        /\ pc \in {"estimate", "error"}
        /\ pc = "error" => error = "RuntimeError" /\ sift_len = 0 /\ ~ENABLED Next
        /\ sample_size = None /\ sample_indices = UnboundList
        /\ mismatches = None /\ QBER = UnboundFrac
        /\ remaining_indices = UnboundList
        /\ raw_A_key = UnboundStr /\ raw_B_key = UnboundStr
        /\ NothingDecided /\ NothingSummarised

\* C4's case: a run that transmitted but sifted nothing, stopped by the error.
C4_Witness ==
    /\ pc = "error" /\ error = "RuntimeError" /\ N >= 1 /\ NoMatch
    /\ protocol \in {"BB84", "E91"}

\* C5 (as claimed): in E91 with Eve enabled, at every index the circuit
\* handed on holds 1 on qubit 1 exactly when classical bit 1 of Eve's counts
\* key is 1, holds 0 there when it is 0, and holds 0 on qubit 0.
C5_EveResendsHerOutcome ==
    (protocol = "E91" /\ EVE_ENABLED) =>
        \A k \in Range(Len(qc_sent)) :
            /\ PreparedValue(At(qc_sent, k), 1) = DigitVal(At(eve_counts, k)[1])
            /\ PreparedValue(At(qc_sent, k), 0) = 0

\* C6 (as claimed): every stored bit is 0 or 1 -- A_bits, B_results and,
\* with Eve, eve_results in BB84; results_A, results_B and, with Eve,
\* eve_results in E91.
C6_StoredBitsAreBits ==
    /\ protocol = "BB84" =>
          /\ \A k \in DOMAIN A_bits : A_bits[k] \in Bits
          /\ \A k \in Range(i) : At(B_results, k) \in Bits
          /\ EVE_ENABLED => \A k \in Range(i) : At(eve_results, k) \in Bits
    /\ protocol = "E91" =>
          /\ \A k \in DOMAIN results_A : results_A[k] \in Bits
          /\ \A k \in DOMAIN results_B : results_B[k] \in Bits
          /\ EVE_ENABLED => \A k \in DOMAIN eve_results : eve_results[k] \in Bits

\* C7 (as claimed): a basis label other than 'Z' or 'X' given to
\* prepare_state or to measure_in_basis stops the calls with an error, and
\* no measurement result is produced from it.
C7_BadLabelIsFatal ==
    /\ (fn_basis_A \notin ValidLabels /\ fn_pc # "prepare") =>
           /\ fn_pc = "error" /\ fn_error = "ValueError"
           /\ fn_eve_meas = None /\ fn_B_meas = None
    /\ fn_basis_E \notin ValidLabels => fn_eve_meas = None /\ fn_B_meas = None
    /\ fn_basis_B \notin ValidLabels => fn_B_meas = None

\* C8 (as claimed): whenever the decision is proceed the run reports whether
\* the two raw keys are equal, and the final key is the hash of the
\* sender's raw key whether or not they are.
C8_ProceedReportsKeyMatch ==
    decision = "proceed" =>
        /\ keys_match \in {"match", "differ"}
        /\ keys_match = "match" <=> raw_A_key = raw_B_key
        /\ final_key_hex = privacy_amplify_sha256(raw_A_key)

\* The value of a bit string read as a big-endian binary numeral.
RECURSIVE BitsValue(_)
BitsValue(s) ==
    IF Len(s) = 0 THEN 0
    ELSE (IF s[1] = "1" THEN Pow(2, Len(s) - 1) ELSE 0) + BitsValue(Tail(s))

\* The big-endian unsigned value of a byte array.
RECURSIVE BytesValue(_)
BytesValue(b) ==
    IF Len(b) = 0 THEN 0 ELSE b[1] * Pow(256, Len(b) - 1) + BytesValue(Tail(b))

\* Decoding: the m low bits of the bytes' value, the highest first.
DecodeBytes(b, m) ==
    [k \in 1 .. m |-> IF (BytesValue(b) \div Pow(2, m - k)) % 2 = 1 THEN "1" ELSE "0"]

\* C9: for a non-empty bit string s of length m the bytes hashed are
\* ceil(m/8) bytes whose big-endian value is the value of s, decoding them to
\* m bits gives s back (leading zeros included), and no other bit string of
\* length m is encoded to the same bytes; for the empty string the result
\* is '' and nothing is hashed.
C9_EncodingRoundTrip ==
    pa_pc = "returned" =>
        LET s == pa_bitstring
            m == Len(pa_bitstring)
        IN  IF m = 0 THEN pa_out = <<>>
            ELSE /\ Len(pa_out) = 2
                 /\ pa_out[1] = "sha256"
                 /\ LET b == pa_out[2] IN
                    /\ 8 * Len(b) >= m /\ 8 * (Len(b) - 1) < m
                    /\ \A k \in DOMAIN b : b[k] \in 0 .. 255
                    /\ BytesValue(b) = BitsValue(s)
                    /\ DecodeBytes(b, m) = s
                    /\ \A t \in ListsOf({"0", "1"}, m) : t # s => EncodeBitstring(t) # b

\* C9's case: a nine-bit string with a leading zero, hashed as two bytes.
C9_Witness ==
    /\ pa_pc = "returned" /\ Len(pa_bitstring) = 9 /\ pa_bitstring[1] = "0"
    /\ pa_bitstring[2] = "1" /\ Len(pa_out) = 2 /\ Len(pa_out[2]) = 2

\* C10: in BB84 with Eve enabled, wherever Eve's basis equals A's and B's
\* her measured bit and B's result both equal A's bit; so a mismatch at a
\* sifted index happens only where Eve's basis differs from A's.
C10_EveUndetectedOnRightBasis ==
    (protocol = "BB84" /\ EVE_ENABLED) =>
        \A k \in Range(i) :
            /\ (At(eve_bases, k) = At(A_bases, k) /\ At(A_bases, k) = At(B_bases, k)) =>
                   /\ At(eve_results, k) = At(A_bits, k)
                   /\ At(B_results, k) = At(A_bits, k)
            /\ (At(A_bases, k) = At(B_bases, k) /\ At(B_results, k) # At(A_bits, k)) =>
                   At(eve_bases, k) # At(A_bases, k)

\* C10's case: a run with one index where all three bases agree and one
\* sifted index where B's result differs from A's bit.
C10_Witness ==
    /\ protocol = "BB84" /\ EVE_ENABLED /\ pc = "done"
    /\ \E k \in Range(N) :
           At(eve_bases, k) = At(A_bases, k) /\ At(A_bases, k) = At(B_bases, k)
    /\ \E k \in Range(N) :
           At(A_bases, k) = At(B_bases, k) /\ At(B_results, k) # At(A_bits, k)


====
